---------------------------- MODULE Spec2Model ----------------------------
(***************************************************************************)
(* A model of the hypergrid ingestion service (src/src/index.ts): the      *)
(* validator validateProviderCallFlow, the POST /api/data handler with its *)
(* access guard, the upsert into hypergrid_events, and server startup.     *)
(***************************************************************************)
EXTENDS Integers, Sequences, FiniteSets, TLC

(***************************************************************************)
(* JavaScript values.  Every value is a record of the same shape so that   *)
(* any two values can be compared: t is the typeof tag (null is kept       *)
(* apart from object), s the text of a string (or the name of a special    *)
(* number), n the integer part of a number and f its fraction in units     *)
(* of 10^-7.                                                              *)
(***************************************************************************)
FracUnit == 10000000

Undefined == [t |-> "undefined", s |-> "", n |-> 0, f |-> 0]

Null == [t |-> "null", s |-> "", n |-> 0, f |-> 0]

Bool(b) == [t |-> "boolean", s |-> "", n |-> IF b THEN 1 ELSE 0, f |-> 0]

Num(n, f) == [t |-> "number", s |-> "", n |-> n, f |-> f]

NaN == [t |-> "number", s |-> "NaN", n |-> 0, f |-> 0]

\* 1e20: an integral double outside the range of a 32-bit integer
Huge == [t |-> "number", s |-> "1e20", n |-> 0, f |-> 0]

Str(s) == [t |-> "string", s |-> s, n |-> 0, f |-> 0]

Obj == [t |-> "object", s |-> "{}", n |-> 0, f |-> 0]

TypeOf(v) == IF v.t = "null" THEN "object" ELSE v.t

\* ToBoolean: undefined, null, false, 0, NaN and "" are falsy
Truthy(v) ==
    CASE v.t = "undefined" -> FALSE
      [] v.t = "null" -> FALSE
      [] v.t = "boolean" -> v.n = 1
      [] v.t = "number" -> v.s # "NaN" /\ ~(v.s = "" /\ v.n = 0 /\ v.f = 0)
      [] v.t = "string" -> v.s # ""
      [] OTHER -> TRUE

\* a || b
OrElse(a, b) == IF Truthy(a) THEN a ELSE b

\* Number.isInteger
IsInteger(v) == v.t = "number" /\ v.s # "NaN" /\ v.f = 0

\* Array.prototype.includes on an array of strings
Includes(list, v) == v.t = "string" /\ \E i \in 1..Len(list) : list[i] = v.s

(***************************************************************************)
(* The fields of a provider call flow, in the order of the upsert's        *)
(* parameters.  A request body is a function from these names to values;   *)
(* a key the body does not carry maps to Undefined.                        *)
(***************************************************************************)
Fields ==
    << "tx_hash", "provider", "provider_node", "source_node", "arg_count",
       "price_usdc", "transferred_usdc", "status", "started_at",
       "completed_at", "total_duration_ms", "successful_attempt",
       "total_attempts", "response_size_bytes", "error_type",
       "error_message", "validation_error", "payment_validated" >>

FieldSet == {Fields[i] : i \in 1..Len(Fields)}

StatusValues == << "Success", "Failed" >>

ErrorTypeValues ==
    << "ProviderNotFound", "PaymentValidationFailed", "AllRetriesFailed",
       "ApiCallFailed" >>

\* the text of the error pushed for each validated field
ErrorText ==
    [ tx_hash |-> "tx_hash is required and must be a string",
      provider |-> "provider is required and must be a string",
      provider_node |-> "provider_node is required and must be a string",
      source_node |-> "source_node is required and must be a string",
      arg_count |-> "arg_count is required and must be an integer",
      price_usdc |-> "price_usdc is required and must be a number",
      transferred_usdc |-> "transferred_usdc is required and must be a number",
      status |-> "status is required and must be one of: Success, Failed",
      started_at |-> "started_at is required and must be a valid RFC3339 timestamp string",
      successful_attempt |-> "successful_attempt is required and must be an integer",
      total_attempts |-> "total_attempts is required and must be an integer",
      payment_validated |-> "payment_validated is required and must be a boolean",
      error_type |-> "error_type must be one of: ProviderNotFound, PaymentValidationFailed, AllRetriesFailed, ApiCallFailed, or null" ]

\* errors.push(text) under a condition
PushIf(cond, text) == IF cond THEN << text >> ELSE << >>

\* if (!data.x || typeof data.x !== 'string')
NotAString(v) == ~Truthy(v) \/ TypeOf(v) # "string"

\* if (typeof data.x !== 'number' || !Number.isInteger(data.x))
NotAnInteger(v) == TypeOf(v) # "number" \/ ~IsInteger(v)

\* the errors array after the thirteen checks
FieldErrors(data) ==
            PushIf(NotAString(data.tx_hash), ErrorText.tx_hash)
         \o PushIf(NotAString(data.provider), ErrorText.provider)
         \o PushIf(NotAString(data.provider_node), ErrorText.provider_node)
         \o PushIf(NotAString(data.source_node), ErrorText.source_node)
         \o PushIf(NotAnInteger(data.arg_count), ErrorText.arg_count)
         \o PushIf(TypeOf(data.price_usdc) # "number", ErrorText.price_usdc)
         \o PushIf(TypeOf(data.transferred_usdc) # "number",
                   ErrorText.transferred_usdc)
         \o PushIf(~Truthy(data.status) \/ ~Includes(StatusValues, data.status),
                   ErrorText.status)
         \o PushIf(NotAString(data.started_at), ErrorText.started_at)
         \o PushIf(NotAnInteger(data.successful_attempt),
                   ErrorText.successful_attempt)
         \o PushIf(NotAnInteger(data.total_attempts), ErrorText.total_attempts)
         \o PushIf(TypeOf(data.payment_validated) # "boolean",
                   ErrorText.payment_validated)
         \o PushIf(   data.error_type # Null /\ data.error_type # Undefined
                   /\ ~Includes(ErrorTypeValues, data.error_type),
                   ErrorText.error_type)

\* a validator that returns at its first error
validateFirstErrorOnly(data) ==
    LET errors == IF FieldErrors(data) = << >> THEN << >>
                  ELSE << Head(FieldErrors(data)) >>
    IN  [isValid |-> Len(errors) = 0, errors |-> errors]

validateProviderCallFlow(data) ==
    LET errors == FieldErrors(data)
    IN  [isValid |-> Len(errors) = 0, errors |-> errors]


(***************************************************************************)
(* The store: table hypergrid_events.  A stored value has the shape of a   *)
(* JavaScript value with an SQL type tag; a NUMERIC keeps its fraction in  *)
(* the same 10^-7 unit (always a multiple of 10 after rounding to scale    *)
(* 6), a TIMESTAMPTZ keeps the instant in n.                               *)
(***************************************************************************)
DbNull == [t |-> "NULL", s |-> "", n |-> 0, f |-> 0]

DbError == [t |-> "ERROR", s |-> "", n |-> 0, f |-> 0]

DbText(s) == [t |-> "TEXT", s |-> s, n |-> 0, f |-> 0]

DbInt(n) == [t |-> "INTEGER", s |-> "", n |-> n, f |-> 0]

DbNumeric(n, f) == [t |-> "NUMERIC", s |-> "", n |-> n, f |-> f]

DbNumericNaN == [t |-> "NUMERIC", s |-> "NaN", n |-> 0, f |-> 0]

DbTimestamp(instant) == [t |-> "TIMESTAMPTZ", s |-> "", n |-> instant, f |-> 0]

DbBool(b) == [t |-> "BOOLEAN", s |-> "", n |-> IF b THEN 1 ELSE 0, f |-> 0]

\* the column types of CREATE TABLE hypergrid_events
ColumnType ==
    [ tx_hash |-> "VARCHAR", provider |-> "VARCHAR",
      provider_node |-> "VARCHAR", source_node |-> "VARCHAR",
      arg_count |-> "INTEGER", price_usdc |-> "DECIMAL",
      transferred_usdc |-> "DECIMAL", status |-> "VARCHAR",
      started_at |-> "TIMESTAMPTZ", completed_at |-> "TIMESTAMPTZ",
      total_duration_ms |-> "INTEGER", successful_attempt |-> "INTEGER",
      total_attempts |-> "INTEGER", response_size_bytes |-> "INTEGER",
      error_type |-> "VARCHAR", error_message |-> "TEXT",
      validation_error |-> "TEXT", payment_validated |-> "BOOLEAN" ]

NotNullColumns ==
    { "tx_hash", "provider", "provider_node", "source_node", "arg_count",
      "price_usdc", "transferred_usdc", "status", "started_at",
      "successful_attempt", "total_attempts", "payment_validated" }

VarcharDefault == 255

VarcharStatus == 20

VarcharErrorType == 50

VarcharLimit(col) ==
    CASE col = "status" -> VarcharStatus
      [] col = "error_type" -> VarcharErrorType
      [] OTHER -> VarcharDefault

\* DECIMAL(10, 6): 6 digits after the point, 4 before it
DecimalScaleStep == 10

DecimalIntegerLimit == 10000

\* the digits of a fraction, most significant first, trailing zeros dropped
RECURSIVE FracDigits(_, _)
FracDigits(f, unit) ==
    IF f = 0 THEN ""
    ELSE ToString(f \div (unit \div 10))
          \o FracDigits(f % (unit \div 10), unit \div 10)

\* Number.prototype.toString, as the driver sends a number parameter
NumberToString(v) ==
    IF v.s # "" THEN v.s
    ELSE IF v.f = 0 THEN ToString(v.n)
    ELSE ToString(v.n) \o "." \o FracDigits(v.f, FracUnit)

\* the text the driver sends for a parameter that is not null
ParamText(v) ==
    CASE v.t = "string" -> v.s
      [] v.t = "number" -> NumberToString(v)
      [] v.t = "boolean" -> IF v.n = 1 THEN "true" ELSE "false"
      [] OTHER -> v.s

\* the timestamp texts of the model and the instant each denotes; any other
\* text is not a timestamp
TimestampLiteral ==
    [ s \in { "2024-01-01T00:00:00Z", "2024-01-01T01:00:00+01:00",
              "2024-01-01T00:00:05Z" } |->
        IF s = "2024-01-01T00:00:05Z" THEN 5 ELSE 0 ]

\* the integer texts of the model; any other text is not an integer
IntegerLiteral == [ s \in { "0", "7" } |-> IF s = "7" THEN 7 ELSE 0 ]

\* round half away from zero to scale 6, then check the precision
DecimalInput(v) ==
    IF v.s = "NaN" THEN DbNumericNaN
    ELSE IF v.s # "" THEN DbError
    ELSE LET up == (v.f % DecimalScaleStep) * 2 >= DecimalScaleStep
             f6 == (v.f \div DecimalScaleStep + IF up THEN 1 ELSE 0)
                       * DecimalScaleStep
             n6 == IF f6 = FracUnit THEN v.n + 1 ELSE v.n
             r6 == IF f6 = FracUnit THEN 0 ELSE f6
         IN  IF n6 >= DecimalIntegerLimit THEN DbError ELSE DbNumeric(n6, r6)

\* the value a column of type ty takes from parameter v, or DbError
TypedInput(ty, limit, v) ==
    CASE ty = "VARCHAR" ->
            IF Len(ParamText(v)) > limit THEN DbError ELSE DbText(ParamText(v))
      [] ty = "TEXT" -> DbText(ParamText(v))
      [] ty = "INTEGER" ->
            IF v.t = "number"
            THEN IF IsInteger(v) /\ v.s = "" THEN DbInt(v.n) ELSE DbError
            ELSE IF v.t = "string" /\ v.s \in DOMAIN IntegerLiteral
                 THEN DbInt(IntegerLiteral[v.s])
                 ELSE DbError
      [] ty = "DECIMAL" ->
            IF v.t = "number" THEN DecimalInput(v)
            ELSE IF v.t = "string" /\ v.s \in DOMAIN IntegerLiteral
                 THEN DecimalInput(Num(IntegerLiteral[v.s], 0))
                 ELSE DbError
      [] ty = "TIMESTAMPTZ" ->
            IF ParamText(v) \in DOMAIN TimestampLiteral
            THEN DbTimestamp(TimestampLiteral[ParamText(v)])
            ELSE DbError
      [] ty = "BOOLEAN" ->
            IF v.t = "boolean" THEN DbBool(v.n = 1)
            ELSE IF v.t = "string" /\ v.s \in {"true", "false"}
                 THEN DbBool(v.s = "true")
                 ELSE DbError
      [] OTHER -> DbError

\* parameter v bound to column col: null and undefined are sent as NULL
ColumnInput(col, v) ==
    IF v.t \in {"null", "undefined"}
    THEN IF col \in NotNullColumns THEN DbError ELSE DbNull
    ELSE TypedInput(ColumnType[col], VarcharLimit(col), v)

\* CHECK (status IN ...) and CHECK (error_type IN ... OR error_type IS NULL)
CheckConstraints(vals) ==
    /\ \E i \in 1..Len(StatusValues) : vals.status = DbText(StatusValues[i])
    /\ \/ vals.error_type = DbNull
       \/ \E i \in 1..Len(ErrorTypeValues) :
              vals.error_type = DbText(ErrorTypeValues[i])

\* the columns ON CONFLICT (tx_hash) DO UPDATE SET assigns from EXCLUDED
UpdatedColumns ==
    { "provider", "provider_node", "source_node", "status", "completed_at",
      "total_duration_ms", "successful_attempt", "total_attempts",
      "response_size_bytes", "error_type", "error_message",
      "validation_error", "payment_validated" }

\* the columns the conflict clause leaves as first inserted
KeptColumns == FieldSet \ UpdatedColumns

\* a row: col holds the 18 data columns
NewRow(id, vals, now) ==
    [id |-> id, col |-> vals, created_at |-> now, updated_at |-> now]

\* a merge that also restarts created_at
MergedRowTouchingCreated(old, vals, now) ==
    [ id |-> old.id,
      col |-> [c \in FieldSet |->
                  IF c \in UpdatedColumns THEN vals[c] ELSE old.col[c]],
      created_at |-> now,
      updated_at |-> now ]

MergedRow(old, vals, now) ==
    [ id |-> old.id,
      col |-> [c \in FieldSet |->
                  IF c \in UpdatedColumns THEN vals[c] ELSE old.col[c]],
      created_at |-> old.created_at,
      updated_at |-> now ]

\* INSERT ... ON CONFLICT (tx_hash) DO UPDATE ... as one atomic statement on
\* table tbl at time now; params maps each column to its parameter.
\* ok tells whether the statement succeeded, rows is the table after it.
Upsert(tbl, params, id, now) ==
    LET vals == [c \in FieldSet |-> ColumnInput(c, params[c])]
        hit == {r \in tbl : r.col.tx_hash = vals.tx_hash}
    IN  IF \E c \in FieldSet : vals[c] = DbError THEN [ok |-> FALSE, rows |-> tbl]
        ELSE IF ~CheckConstraints(vals) THEN [ok |-> FALSE, rows |-> tbl]
        ELSE IF hit = {} THEN [ok |-> TRUE, rows |-> tbl \cup {NewRow(id, vals, now)}]
        ELSE [ ok |-> TRUE,
               rows |-> (tbl \ hit) \cup {MergedRow(r, vals, now) : r \in hit} ]

\* the parameter array of pool.query(upsertQuery, [...])
QueryParams(flow) ==
    [ tx_hash |-> flow.tx_hash,
      provider |-> flow.provider,
      provider_node |-> flow.provider_node,
      source_node |-> flow.source_node,
      arg_count |-> flow.arg_count,
      price_usdc |-> flow.price_usdc,
      transferred_usdc |-> flow.transferred_usdc,
      status |-> flow.status,
      started_at |-> flow.started_at,
      completed_at |-> OrElse(flow.completed_at, Null),
      total_duration_ms |-> OrElse(flow.total_duration_ms, Null),
      successful_attempt |-> flow.successful_attempt,
      total_attempts |-> flow.total_attempts,
      response_size_bytes |-> OrElse(flow.response_size_bytes, Null),
      error_type |-> OrElse(flow.error_type, Null),
      error_message |-> OrElse(flow.error_message, Null),
      validation_error |-> OrElse(flow.validation_error, Null),
      payment_validated |-> flow.payment_validated ]

(***************************************************************************)
(* The access guard.  The text of an address or of ALLOWED_IPS is a        *)
(* sequence of pieces: "," is the separator, " " is white space, any       *)
(* other piece is a run of characters holding neither.  An optional        *)
(* string is a record, so that undefined differs from the empty string.    *)
(***************************************************************************)
NoStr == [defined |-> FALSE, text |-> << >>]

Text(pieces) == [defined |-> TRUE, text |-> pieces]

\* ToBoolean of an optional string
StrTruthy(o) == o.defined /\ o.text # << >>

\* String.prototype.trim
RECURSIVE TrimLeft(_)
TrimLeft(t) == IF t # << >> /\ Head(t) = " " THEN TrimLeft(Tail(t)) ELSE t

RECURSIVE TrimRight(_)
TrimRight(t) ==
    IF t # << >> /\ t[Len(t)] = " " THEN TrimRight(SubSeq(t, 1, Len(t) - 1))
    ELSE t

Trim(t) == TrimRight(TrimLeft(t))

\* String.prototype.split(','): at least one entry, also for the empty text
RECURSIVE SplitFrom(_, _)
SplitFrom(t, cur) ==
    IF t = << >> THEN << cur >>
    ELSE IF Head(t) = "," THEN << cur >> \o SplitFrom(Tail(t), << >>)
    ELSE SplitFrom(Tail(t), Append(cur, Head(t)))

Split(t) == SplitFrom(t, << >>)

\* .map(ip => ip.trim()).filter(Boolean)
RECURSIVE TrimAndFilter(_)
TrimAndFilter(list) ==
    IF list = << >> THEN << >>
    ELSE (IF Trim(Head(list)) = << >> THEN << >> ELSE << Trim(Head(list)) >>)
            \o TrimAndFilter(Tail(list))

\* an allow-list that keeps its blank entries
AllowedIpsUnfiltered(env) ==
    LET list == Split(IF StrTruthy(env) THEN env.text ELSE << >>)
    IN  [k \in 1..Len(list) |-> Trim(list[k])]

\* (process.env.ALLOWED_IPS || '').split(',').map(ip => ip.trim()).filter(Boolean)
AllowedIps(env) ==
    TrimAndFilter(Split(IF StrTruthy(env) THEN env.text ELSE << >>))

\* (req.headers['x-forwarded-for'] as string)?.split(',')[0]?.trim()
ForwardedFirst(xff) ==
    IF xff.defined THEN Text(Trim(Split(xff.text)[1])) ELSE NoStr

\* req.ip || req.connection.remoteAddress || req.socket.remoteAddress || ...
ClientIp(net) ==
    IF StrTruthy(net.ip) THEN net.ip
    ELSE IF StrTruthy(net.connectionRemote) THEN net.connectionRemote
    ELSE IF StrTruthy(net.socketRemote) THEN net.socketRemote
    ELSE ForwardedFirst(net.xff)

\* a membership test that trims the client address first
IpIncludedTrimmed(list, ip) == \E i \in 1..Len(list) : list[i] = Trim(ip.text)

\* allowedIps.includes(clientIp)
IpIncluded(list, ip) == \E i \in 1..Len(list) : list[i] = ip.text

(***************************************************************************)
(* The responses of POST /api/data.  A key the JSON body does not carry    *)
(* is "" (error, message), << >> (details), FALSE (success) or Undefined   *)
(* (tx_hash); status 0 means that nothing was sent.                        *)
(***************************************************************************)
Response(status, error, message, details, success, tx) ==
    [ status |-> status, error |-> error, message |-> message,
      details |-> details, success |-> success, tx_hash |-> tx ]

NoResponse == Response(0, "", "", << >>, FALSE, Undefined)

Misconfigured ==
    Response(500, "Server misconfiguration", "No allowed IPs configured",
             << >>, FALSE, Undefined)

Forbidden ==
    Response(403, "Forbidden", "IP address not authorized", << >>, FALSE,
             Undefined)

NoData ==
    Response(400, "No data provided",
             "Request body must contain data to store", << >>, FALSE, Undefined)

InvalidData(errors) ==
    Response(400, "Invalid data format",
             "Provider call flow data validation failed", errors, FALSE,
             Undefined)

Stored(tx) == Response(200, "", "", << >>, TRUE, tx)

\* a 500 that echoes the store's error
PersistenceFailedEchoing ==
    Response(500, "Database persistence failed",
             "relation \"hypergrid_events\" does not exist", << >>, FALSE,
             Undefined)

PersistenceFailed ==
    Response(500, "Database persistence failed", "", << >>, FALSE, Undefined)

\* Object.keys(req.body).length
KeyCount(body) == Cardinality({k \in FieldSet : body[k] # Undefined})

\* a handler that looks at the body before the caller's address
GatesBodyFirst(env, net, hasBody, body) ==
    LET clientIp == ClientIp(net)
        allowedIps == AllowedIps(env)
    IN  IF Len(allowedIps) = 0 THEN Misconfigured
        ELSE IF ~hasBody \/ KeyCount(body) = 0 THEN NoData
        ELSE IF ~StrTruthy(clientIp) \/ ~IpIncluded(allowedIps, clientIp)
             THEN Forbidden
        ELSE IF ~validateProviderCallFlow(body).isValid
             THEN InvalidData(validateProviderCallFlow(body).errors)
        ELSE NoResponse

\* The synchronous part of the handler, up to the await of pool.query:
\* the response it sends, or NoResponse when it issues the upsert.
Gates(env, net, hasBody, body) ==
    LET clientIp == ClientIp(net)
        allowedIps == AllowedIps(env)
    IN  IF Len(allowedIps) = 0 THEN Misconfigured
        ELSE IF ~StrTruthy(clientIp) \/ ~IpIncluded(allowedIps, clientIp)
             THEN Forbidden
        ELSE IF ~hasBody \/ KeyCount(body) = 0 THEN NoData
        ELSE IF ~validateProviderCallFlow(body).isValid
             THEN InvalidData(validateProviderCallFlow(body).errors)
        ELSE NoResponse

(***************************************************************************)
(* Bounds and inputs.                                                      *)
(***************************************************************************)
\* requests the server receives in one run
MaxRequests == 2

\* fields of a record changed at once when the validator's inputs are drawn
MaxPerturbed == 2

RequestIds == 1..MaxRequests

\* the body of the concrete scenario: every required field, no optional one
ValidFlow ==
    [ tx_hash |-> Str("0xabc"), provider |-> Str("p1"),
      provider_node |-> Str("n1"), source_node |-> Str("n2"),
      arg_count |-> Num(2, 0), price_usdc |-> Num(1, 5000000),
      transferred_usdc |-> Num(1, 5000000), status |-> Str("Success"),
      started_at |-> Str("2024-01-01T00:00:00Z"), completed_at |-> Undefined,
      total_duration_ms |-> Undefined, successful_attempt |-> Num(1, 0),
      total_attempts |-> Num(1, 0), response_size_bytes |-> Undefined,
      error_type |-> Undefined, error_message |-> Undefined,
      validation_error |-> Undefined, payment_validated |-> Bool(TRUE) ]

\* another transaction, with every optional field present and truthy
OtherFlow ==
    [ ValidFlow EXCEPT
        !.tx_hash = Str("0xdef"),
        !.completed_at = Str("2024-01-01T01:00:00+01:00"),
        !.total_duration_ms = Num(7, 0),
        !.response_size_bytes = Num(7, 0),
        !.error_message = Str("slow"),
        !.validation_error = Num(7, 0) ]

\* the same transaction submitted again: other mutable and immutable fields,
\* a duration of 0 ms and an empty error message
RetryFlow ==
    [ tx_hash |-> Str("0xabc"), provider |-> Str("p2"),
      provider_node |-> Str("n3"), source_node |-> Str("n4"),
      arg_count |-> Num(3, 0), price_usdc |-> Num(1, 2345678),
      transferred_usdc |-> Num(0, 0), status |-> Str("Failed"),
      started_at |-> Str("2024-01-01T00:00:05Z"),
      completed_at |-> Str("2024-01-01T00:00:05Z"),
      total_duration_ms |-> Num(0, 0), successful_attempt |-> Num(0, 0),
      total_attempts |-> Num(3, 0), response_size_bytes |-> Null,
      error_type |-> Str("AllRetriesFailed"), error_message |-> Str(""),
      validation_error |-> Str("bad signature"),
      payment_validated |-> Bool(FALSE) ]

\* accepted by the validator, rejected by the store
BadTimestampFlow == [ValidFlow EXCEPT !.started_at = Str("yesterday")]

\* rejected by the validator
PendingFlow == [ValidFlow EXCEPT !.status = Str("Pending")]

EmptyFlow == [k \in FieldSet |-> Undefined]

\* a request body: hasBody is FALSE when req.body is undefined
Body(hasBody, data) == [hasBody |-> hasBody, data |-> data]

GateBodies ==
    { Body(FALSE, EmptyFlow), Body(TRUE, EmptyFlow), Body(TRUE, PendingFlow),
      Body(TRUE, ValidFlow) }

StoreBodies ==
    { Body(TRUE, ValidFlow), Body(TRUE, RetryFlow), Body(TRUE, OtherFlow),
      Body(TRUE, BadTimestampFlow) }

Net(ip, remote, xff) ==
    [ip |-> ip, connectionRemote |-> remote, socketRemote |-> remote, xff |-> xff]

\* req.ip is a listed address
DirectNet == Net(Text(<< "10.0.0.1" >>), Text(<< "10.0.0.1" >>), NoStr)

\* an address that is on no list
UnlistedNet == Net(Text(<< "192.168.1.9" >>), Text(<< "192.168.1.9" >>), NoStr)

OtherNets ==
    { \* no address at all
      Net(NoStr, NoStr, NoStr),
      \* an empty req.ip, no socket address: the forwarded-for header's first
      \* entry, trimmed
      Net(Text(<< >>), NoStr,
          Text(<< " ", "10.0.0.1", " ", ",", "203.0.113.7" >>)),
      \* a listed address with a leading blank
      Net(Text(<< " ", "10.0.0.1" >>), NoStr, NoStr) }

\* the inputs of a request
Inputs ==
    ({DirectNet} \X (GateBodies \cup StoreBodies))
        \cup ({UnlistedNet} \X {Body(TRUE, EmptyFlow), Body(TRUE, ValidFlow)})
        \cup (OtherNets \X {Body(TRUE, PendingFlow)})

\* values of ALLOWED_IPS
EnvSamples ==
    { NoStr, Text(<< >>), Text(<< " ", ",", " ", "," >>),
      Text(<< " ", "10.0.0.1", " ", ",", ",", "10.0.0.2", "," >>) }

\* values of one field when the validator's inputs are drawn
FieldSamples ==
    { Undefined, Null, Bool(TRUE), Num(0, 0), Num(1, 5000000), Huge, Str(""),
      Str("Failed"), Str("ApiCallFailed") }

ValidatedFields == DOMAIN ErrorText

(***************************************************************************)
(* State.                                                                  *)
(***************************************************************************)
VARIABLES
    allowedEnv,   \* process.env.ALLOWED_IPS
    init,         \* initializeDatabase: "creating", "done", or "exited"
    tableExists,  \* whether hypergrid_events exists in the database
    rows,         \* the rows of hypergrid_events
    nextId,       \* the sequence behind id SERIAL
    clock,        \* the store's clock: what NOW() returns
    req,          \* each request: its inputs, its place in the handler, its
                  \* response; and as history: the upserts it issued, the
                  \* responses it sent, whether its upsert succeeded and
                  \* whether it changed the table
    applied,      \* history: the upserts that succeeded, in the order applied
    vdata,        \* the validator's input, when it runs on its own
    vresult       \* and its result

vars ==
    << allowedEnv, init, tableExists, rows, nextId, clock, req, applied,
       vdata, vresult >>

NotCalled == [called |-> FALSE, isValid |-> FALSE, errors |-> << >>]

IdleRequest ==
    [ pc |-> "idle", net |-> Net(NoStr, NoStr, NoStr),
      body |-> Body(FALSE, EmptyFlow), response |-> NoResponse,
      queries |-> 0, responses |-> 0, dbOk |-> FALSE, changed |-> FALSE ]

\* the server is listening and the listen callback has started
\* initializeDatabase; the database may hold the table from an earlier run
Init ==
    /\ allowedEnv \in EnvSamples
    /\ init = "creating"
    /\ tableExists \in BOOLEAN
    /\ rows = {}
    /\ nextId = 1
    /\ clock = 0
    /\ req = [i \in RequestIds |-> IdleRequest]
    /\ applied = << >>
    /\ vdata = EmptyFlow
    /\ vresult = NotCalled

ProcessAlive == init # "exited"

\* CREATE TABLE IF NOT EXISTS succeeds and initializeDatabase returns
CreateTableOk ==
    /\ init = "creating"
    /\ init' = "done"
    /\ tableExists' = TRUE
    /\ UNCHANGED << allowedEnv, rows, nextId, clock, req, applied, vdata, vresult >>

\* CREATE TABLE fails: the catch block calls process.exit(1)
CreateTableFails ==
    /\ init = "creating"
    /\ init' = "exited"
    /\ UNCHANGED << allowedEnv, tableExists, rows, nextId, clock, req, applied,
                    vdata, vresult >>

\* app.post("/api/data"): request i arrives and the handler runs to its
\* first response or to the await of pool.query
Handle(i) ==
    /\ ProcessAlive
    /\ req[i].pc = "idle"
    /\ \A j \in RequestIds : j < i => req[j].pc # "idle"
    /\ \E in \in Inputs :
          LET net == in[1]
              body == in[2]
              r == Gates(allowedEnv, net, body.hasBody, body.data)
          IN  req' = [req EXCEPT ![i] =
                        IF r = NoResponse
                        THEN [@ EXCEPT !.pc = "querying", !.net = net,
                                       !.body = body, !.queries = @ + 1]
                        ELSE [@ EXCEPT !.pc = "responded", !.net = net,
                                       !.body = body, !.response = r,
                                       !.responses = @ + 1]]
    /\ UNCHANGED << allowedEnv, init, tableExists, rows, nextId, clock, applied,
                    vdata, vresult >>

\* the store executes request i's upsert as one statement; NOW() is the
\* clock, which never runs backwards
DbExecute(i) ==
    /\ req[i].pc = "querying"
    /\ \E d \in 0..1 :
          /\ clock' = clock + d
          /\ LET res == IF tableExists
                        THEN Upsert(rows, QueryParams(req[i].body.data), nextId,
                                    clock + d)
                        ELSE [ok |-> FALSE, rows |-> rows]
             IN  /\ rows' = res.rows
                 /\ nextId' = IF tableExists THEN nextId + 1 ELSE nextId
                 /\ applied' = IF res.ok
                               THEN Append(applied, [rid |-> i, at |-> clock + d])
                               ELSE applied
                 /\ req' = [req EXCEPT ![i] =
                              [@ EXCEPT !.pc = "settled", !.dbOk = res.ok,
                                        !.changed = (res.rows # rows)]]
    /\ UNCHANGED << allowedEnv, init, tableExists, vdata, vresult >>

\* the query fails without reaching the table (no connection, a timeout)
DbUnavailable(i) ==
    /\ req[i].pc = "querying"
    /\ req' = [req EXCEPT ![i] = [@ EXCEPT !.pc = "settled", !.dbOk = FALSE]]
    /\ UNCHANGED << allowedEnv, init, tableExists, rows, nextId, clock, applied,
                    vdata, vresult >>

\* the handler resumes after the await: 200, or the catch block's 500
Respond(i) ==
    /\ ProcessAlive
    /\ req[i].pc = "settled"
    /\ req' = [req EXCEPT ![i] =
                 [@ EXCEPT !.pc = "responded",
                           !.response = IF req[i].dbOk
                                        THEN Stored(req[i].body.data.tx_hash)
                                        ELSE PersistenceFailed,
                           !.responses = @ + 1]]
    /\ UNCHANGED << allowedEnv, init, tableExists, rows, nextId, clock, applied,
                    vdata, vresult >>

Next ==
    \/ CreateTableOk
    \/ CreateTableFails
    \/ \E i \in RequestIds : Handle(i)
    \/ \E i \in RequestIds : DbExecute(i)
    \/ \E i \in RequestIds : DbUnavailable(i)
    \/ \E i \in RequestIds : Respond(i)

Spec == Init /\ [][Next]_vars

(***************************************************************************)
(* The validator on its own: an input is a record that differs from the    *)
(* valid record, or from the empty one, in at most MaxPerturbed fields.    *)
(***************************************************************************)
Perturb(base, p) == [k \in FieldSet |-> IF k \in DOMAIN p THEN p[k] ELSE base[k]]

InitV ==
    /\ \E base \in {ValidFlow, EmptyFlow} :
         \E S \in SUBSET ValidatedFields :
            /\ Cardinality(S) <= MaxPerturbed
            /\ \E p \in [S -> FieldSamples] : vdata = Perturb(base, p)
    /\ vresult = NotCalled
    /\ allowedEnv = NoStr
    /\ init = "done"
    /\ tableExists = TRUE
    /\ rows = {}
    /\ nextId = 1
    /\ clock = 0
    /\ req = [i \in RequestIds |-> IdleRequest]
    /\ applied = << >>

Validate ==
    /\ ~vresult.called
    /\ vresult' = [ called |-> TRUE,
                    isValid |-> validateProviderCallFlow(vdata).isValid,
                    errors |-> validateProviderCallFlow(vdata).errors ]
    /\ UNCHANGED << allowedEnv, init, tableExists, rows, nextId, clock, req,
                    applied, vdata >>

NextV == Validate

SpecV == InitV /\ [][NextV]_vars

(***************************************************************************)
(* Properties.                                                             *)
(***************************************************************************)
FlowOf(i) == req[i].body.data

Handled == {i \in RequestIds : req[i].pc # "idle"}

AppliedIds == {applied[k].rid : k \in 1..Len(applied)}

\* the transaction identifiers of the successful ingestions
AppliedKeys == {FlowOf(i).tx_hash : i \in AppliedIds}

\* the successful ingestions of one transaction identifier, oldest first
EntriesFor(key) == SelectSeq(applied, LAMBDA e : FlowOf(e.rid).tx_hash = key)

FirstFor(key) == EntriesFor(key)[1]

LastFor(key) == EntriesFor(key)[Len(EntriesFor(key))]

RowsFor(key) == {r \in rows : r.col.tx_hash = DbText(key.s)}

MutableFields ==
    { "provider", "provider_node", "source_node", "status", "completed_at",
      "total_duration_ms", "successful_attempt", "total_attempts",
      "response_size_bytes", "error_type", "error_message",
      "validation_error", "payment_validated" }

ImmutableFields ==
    { "tx_hash", "arg_count", "price_usdc", "transferred_usdc", "started_at" }

OptionalFields ==
    { "completed_at", "total_duration_ms", "response_size_bytes",
      "error_message", "validation_error" }

\* the row's columns in fields are the submitted flow's fields, as the
\* column's type stores them
RowReflects(r, flow, fields) ==
    \A c \in fields : r.col[c] = ColumnInput(c, flow[c])

\* C1: the store holds exactly one row per tx_hash successfully ingested;
\* for a tx_hash ingested more than once the row's mutable fields are those
\* of the most recent successful ingestion and its immutable fields those
\* of the first.
C1_OneRowLastMutableFirstImmutable ==
    /\ \A key \in AppliedKeys : Cardinality(RowsFor(key)) = 1
    /\ Cardinality(rows) = Cardinality(AppliedKeys)
    /\ \A key \in AppliedKeys :
          Len(EntriesFor(key)) > 1 =>
             \A r \in RowsFor(key) :
                /\ RowReflects(r, FlowOf(LastFor(key).rid), MutableFields)
                /\ RowReflects(r, FlowOf(FirstFor(key).rid), ImmutableFields)

\* the client address is absent, or is no exact member of the allow-list
NotListed(list, net) ==
    LET ip == ClientIp(net)
    IN  \/ ~ip.defined
        \/ ip.text = << >>
        \/ ip.text \notin {list[k] : k \in 1..Len(list)}

NoStoreWrite(i) ==
    /\ req[i].queries = 0
    /\ ~req[i].changed
    /\ i \notin AppliedIds

\* C2: with a non-empty allow-list, a request whose client address is absent
\* or not an exact member of the list is answered 403 Forbidden / "IP address
\* not authorized" whatever its body, and writes nothing to the store.
C2_UnlistedAddressForbidden ==
    LET list == AllowedIps(allowedEnv)
    IN  \A i \in Handled :
           (Len(list) > 0 /\ NotListed(list, req[i].net)) =>
              /\ req[i].pc = "responded"
              /\ req[i].response =
                    [ status |-> 403, error |-> "Forbidden",
                      message |-> "IP address not authorized",
                      details |-> << >>, success |-> FALSE,
                      tx_hash |-> Undefined ]
              /\ NoStoreWrite(i)

\* requests with a present and with an absent address were refused, one of
\* them carrying a valid body
C2_Witness ==
    /\ Len(AllowedIps(allowedEnv)) > 0
    /\ \E i, j \in Handled :
          /\ req[i].response.status = 403
          /\ req[i].net = UnlistedNet
          /\ req[i].body = Body(TRUE, ValidFlow)
          /\ req[j].response.status = 403
          /\ req[j].body = Body(TRUE, PendingFlow)
          /\ ~ClientIp(req[j].net).defined

\* ALLOWED_IPS is unset, empty, or holds only blank entries
EnvBlank(env) ==
    \/ ~env.defined
    \/ \A k \in 1..Len(env.text) : env.text[k] \in {" ", ","}

\* C3: with an empty allow-list every request is answered 500 "Server
\* misconfiguration", never 403, whatever its address and body, and no
\* store write is attempted.
C3_EmptyAllowListMisconfigured ==
    EnvBlank(allowedEnv) =>
       \A i \in Handled :
          /\ req[i].pc = "responded"
          /\ req[i].response.status = 500
          /\ req[i].response.error = "Server misconfiguration"
          /\ NoStoreWrite(i)

\* with ALLOWED_IPS holding only blanks and commas, a listed-looking address
\* with a valid body and a request without address were both answered 500
C3_Witness ==
    /\ allowedEnv.defined
    /\ allowedEnv.text # << >>
    /\ EnvBlank(allowedEnv)
    /\ \E i, j \in Handled :
          /\ req[i].net = DirectNet
          /\ req[i].body = Body(TRUE, ValidFlow)
          /\ req[i].response.status = 500
          /\ ~ClientIp(req[j].net).defined
          /\ req[j].response.status = 500

\* the order in which the validator looks at the fields
ValidatedOrder ==
    << "tx_hash", "provider", "provider_node", "source_node", "arg_count",
       "price_usdc", "transferred_usdc", "status", "started_at",
       "successful_attempt", "total_attempts", "payment_validated",
       "error_type" >>

IsIntegral(v) == v.t = "number" /\ v.s # "NaN" /\ v.f = 0

\* whether value v of field k breaks the field's rule; a string field must be
\* string-typed and, when nonEmpty, not the empty string
BreaksRule(k, v, nonEmpty) ==
    CASE k \in {"tx_hash", "provider", "provider_node", "source_node", "started_at"} ->
            ~(v.t = "string" /\ (nonEmpty => v.s # ""))
      [] k \in {"arg_count", "successful_attempt", "total_attempts"} ->
            ~IsIntegral(v)
      [] k \in {"price_usdc", "transferred_usdc"} -> v.t # "number"
      [] k = "status" -> v \notin {Str("Success"), Str("Failed")}
      [] k = "payment_validated" -> v.t # "boolean"
      [] k = "error_type" ->
            v \notin { Undefined, Null, Str("ProviderNotFound"),
                       Str("PaymentValidationFailed"), Str("AllRetriesFailed"),
                       Str("ApiCallFailed") }
      [] OTHER -> FALSE

\* one entry per field that breaks its rule, in the validator's order
ExpectedErrors(data, nonEmpty) ==
    LET bad == SelectSeq(ValidatedOrder,
                         LAMBDA k : BreaksRule(k, data[k], nonEmpty))
    IN  [i \in 1..Len(bad) |-> ErrorText[bad[i]]]

ValidatorAgrees(nonEmpty) ==
    vresult.called =>
       /\ vresult.errors = ExpectedErrors(vdata, nonEmpty)
       /\ vresult.isValid = (ExpectedErrors(vdata, nonEmpty) = << >>)

\* C4 as stated: the validator reports a field exactly when it breaks its
\* rule, a string field's rule being "present and string-typed".
C4_ErrorsExactlyForPresentStrings == ValidatorAgrees(FALSE)

\* C4, amended: the validator reports a field exactly when it breaks its
\* rule, a string field's rule being "present, string-typed and not empty";
\* one entry per field, in the fixed order, and isValid iff there is none.
C4_ErrorsExactlyForNonEmptyStrings == ValidatorAgrees(TRUE)

\* an empty tx_hash and a missing status were both reported, and nothing else
C4_Witness ==
    /\ vresult.called
    /\ vdata.tx_hash = Str("")
    /\ vdata.status = Undefined
    /\ vresult.errors = << ErrorText.tx_hash, ErrorText.status >>

\* C5: a request that passed the three gates is answered 200 {success: true,
\* tx_hash} with a row of that tx_hash in the store when its upsert
\* succeeded, and 500 with only {error: "Database persistence failed"} and
\* an unchanged store when its upsert failed.
C5_PersistOutcomeDecidesResponse ==
    \A i \in Handled :
       /\ (req[i].queries = 1 /\ req[i].pc \in {"settled", "responded"}
              /\ ~req[i].dbOk) =>
             ~req[i].changed /\ i \notin AppliedIds
       /\ (req[i].queries = 1 /\ req[i].pc = "responded") =>
             IF req[i].dbOk
             THEN /\ req[i].response =
                        [ status |-> 200, error |-> "", message |-> "",
                          details |-> << >>, success |-> TRUE,
                          tx_hash |-> FlowOf(i).tx_hash ]
                  /\ \E r \in rows : r.col.tx_hash = DbText(FlowOf(i).tx_hash.s)
             ELSE req[i].response =
                        [ status |-> 500, error |-> "Database persistence failed",
                          message |-> "", details |-> << >>, success |-> FALSE,
                          tx_hash |-> Undefined ]

\* one request was stored and answered 200; another, whose started_at the
\* store rejects, was answered 500 although the table exists
C5_Witness ==
    /\ tableExists
    /\ \E i, j \in Handled :
          /\ req[i].pc = "responded" /\ req[i].dbOk
          /\ req[i].response.status = 200
          /\ req[j].pc = "responded" /\ ~req[j].dbOk
          /\ req[j].body = Body(TRUE, BadTimestampFlow)
          /\ req[j].response.status = 500
          /\ rows # {}

\* the place of request i's upsert in the order of application
AppliedAt(i) == CHOOSE k \in 1..Len(applied) : applied[k].rid = i

\* C6: two requests for the same tx_hash handled concurrently (the upsert of
\* the one received later was applied before the upsert of the other, which
\* was thus in flight all the while), both upserts applied: they leave
\* exactly one row, both are answered 200, the row's mutable columns are
\* those of the request applied last and its immutable columns those of the
\* request applied first.
C6_ConcurrentSameKeyLastWriterWins ==
    \A i, j \in AppliedIds :
       LET key == FlowOf(j).tx_hash
       IN  (i < j /\ FlowOf(i).tx_hash = key /\ AppliedAt(j) < AppliedAt(i)
               /\ req[i].pc = "responded" /\ req[j].pc = "responded") =>
              /\ Cardinality(RowsFor(key)) = 1
              /\ req[i].response.status = 200
              /\ req[j].response.status = 200
              /\ \A r \in RowsFor(key) :
                    /\ RowReflects(r, FlowOf(LastFor(key).rid), MutableFields)
                    /\ RowReflects(r, FlowOf(FirstFor(key).rid),
                                   ImmutableFields \ {"tx_hash"})

C8_OptionalFieldsPassThrough ==
    \A key \in AppliedKeys :
       \A r \in RowsFor(key) :
          \A c \in OptionalFields :
             LET v == FlowOf(LastFor(key).rid)[c]
             IN  r.col[c] = IF v = Undefined THEN DbNull ELSE ColumnInput(c, v)

\* the response of the first gate that fails, or NoResponse when none does
FirstFailingGate(list, net, body) ==
    IF Len(list) = 0
    THEN [ status |-> 500, error |-> "Server misconfiguration",
           message |-> "No allowed IPs configured", details |-> << >>,
           success |-> FALSE, tx_hash |-> Undefined ]
    ELSE IF NotListed(list, net)
    THEN [ status |-> 403, error |-> "Forbidden",
           message |-> "IP address not authorized", details |-> << >>,
           success |-> FALSE, tx_hash |-> Undefined ]
    ELSE IF ~body.hasBody \/ \A k \in FieldSet : body.data[k] = Undefined
    THEN [ status |-> 400, error |-> "No data provided",
           message |-> "Request body must contain data to store",
           details |-> << >>, success |-> FALSE, tx_hash |-> Undefined ]
    ELSE LET errors == ExpectedErrors(body.data, TRUE)
         IN  IF errors # << >>
             THEN [ status |-> 400, error |-> "Invalid data format",
                    message |-> "Provider call flow data validation failed",
                    details |-> errors, success |-> FALSE,
                    tx_hash |-> Undefined ]
             ELSE NoResponse

\* C9: a request stops at the first gate that fails, in the order access,
\* body presence, validation, persistence; it gets at most one response and
\* issues at most one upsert, and issues it only when the three earlier
\* gates passed.
C9_FirstFailingGateDecides ==
    LET list == AllowedIps(allowedEnv)
    IN  \A i \in Handled :
           LET gate == FirstFailingGate(list, req[i].net, req[i].body)
           IN  /\ req[i].responses <= 1
               /\ req[i].queries <= 1
               /\ (req[i].pc = "responded") = (req[i].responses = 1)
               /\ (req[i].queries = 1) = (gate = NoResponse)
               /\ gate # NoResponse => req[i].response = gate
               /\ (gate = NoResponse /\ req[i].pc = "responded") =>
                     req[i].response.status \in {200, 500}

\* from a listed address an empty body and an undefined body were answered
\* 400 "No data provided"
C9_Witness ==
    \E i, j \in Handled :
       /\ req[i].net = DirectNet /\ req[j].net = DirectNet
       /\ req[i].body = Body(TRUE, EmptyFlow)
       /\ req[j].body = Body(FALSE, EmptyFlow)
       /\ req[i].response.error = "No data provided"
       /\ req[j].response.error = "No data provided"
       /\ req[i].queries = 0 /\ req[j].queries = 0

\* C10: no upsert is in flight against a database that has no table yet,
\* and nothing was persisted when the process exited on a failed table
\* creation.
C10_TableCreatedBeforePersist ==
    /\ \A i \in Handled : req[i].pc = "querying" => tableExists
    /\ init = "exited" => applied = << >>

=============================================================================
